---- MODULE Spec2Model ----
(***************************************************************************)
(* A model of gan_synthetic_data_generator.py: the two synthesizers        *)
(* (generate_real_data, generate_rule_based_data), the construction of the *)
(* generator / discriminator / composite network, the train_gan loop, the  *)
(* VAE fit, the ARIMA baseline and the rule-based baseline.                *)
(*                                                                         *)
(* Numeric content is abstracted, control flow and data flow are not:      *)
(*   - the global NumPy random source is the pair (seed, pos): pos counts  *)
(*     the normal variates drawn since seeding, so a draw is identified by *)
(*     the seed and the position it starts at;                             *)
(*   - an array is its shape, its container type and the identity of the   *)
(*     random draw (and, for a generator output, of the weights) it was    *)
(*     computed from;                                                      *)
(*   - a network's weights are the number of gradient updates applied      *)
(*     (ver) and a digest of the batches they were applied with (sig);     *)
(*   - a float is an integer level, or a fraction num/den where the code   *)
(*     multiplies by 0.5.                                                  *)
(***************************************************************************)
EXTENDS Integers, Sequences, FiniteSets, TLC

\* ------------------------------------------------------------- bounds
MaxEpochs == 102
MaxSmallEpochs == 3
MaxBatch == 2
NegBatch == 1
MaxSeed == 1
MaxNotebookSeed == 0
MaxN == 2
NegN == 1
MaxCalls == 2
LossLevels == 3

\* -------------------------------------------------- program constants
SeqLen == 30
Features == 1
PrintEvery == 100
DefaultEpochs == 1000
DefaultBatchSize == 32
ArimaSamples == 100
RuleSamples == 100
VaeSamples == 1000
VaeEpochs == 50
VaeBatchSize == 32
latent_dim == 10

VARIABLES
    cell,             \* the operation in progress: "gan", "arima", "synth", or "idle"
    pc,               \* the position inside the operation in progress
    rng,              \* np.random's global state: [seed, pos]
    tfrng,            \* the deep-learning framework's own random state
    trainable,        \* discriminator.trainable: now, at its compile, at gan's compile
    gW, dW,           \* generator and discriminator weights: [ver, sig]
    epochs, batch_size, epoch,
    real_data, noise, fake_data, valid_y,
    d_loss_real, d_loss_fake, d_loss, g_loss,
    log,              \* the status lines printed so far
    err,              \* per cell: the exception that ended it, or "none"
    ops,              \* the library calls of the current epoch, in order
    vaeW, vae_data,
    real_data_arima, arima_fit, arima_pred,
    rule_based_data,
    done,             \* the notebook cells that have run
    start,            \* the random state each cell started from
    calls             \* the synthesizer calls made so far, with their results

params == <<epochs, batch_size>>
nets == <<gW, dW>>
data == <<real_data, noise, fake_data, valid_y>>
losses == <<d_loss_real, d_loss_fake, d_loss, g_loss>>
ganVars == <<params, epoch, nets, data, losses, log, ops>>
arimaVars == <<real_data_arima, arima_fit, arima_pred>>
outside == <<tfrng, trainable, vaeW, vae_data, arimaVars, rule_based_data, calls>>
vars == <<cell, pc, rng, err, done, start, ganVars, outside>>

Cells == {"gan", "vae", "arima", "rule", "synth"}

\* ------------------------------------------------------------ helpers
RECURSIVE Prod(_)
Prod(s) == IF s = <<>> THEN 1 ELSE Head(s) * Prod(Tail(s))

Mix(s, x) == (s * 31 + x + 1) % 1000003

None == [shape |-> <<>>, type |-> "none", kind |-> "none", seed |-> 0, pos |-> 0, w |-> 0]

IsArray(a) == a.type # "none"

Digest(a) == Mix(Mix(Mix(Len(a.kind), a.seed), a.pos), a.w)

\* np.random.seed(s)
SeedState(s) == [seed |-> s, pos |-> 0]

\* np.linspace(0, 100, num): a negative num raises ValueError, zero is allowed
Linspace_RejectsZero(num) ==
    IF num <= 0 THEN [err |-> "ValueError", shape |-> <<>>]
    ELSE [err |-> "none", shape |-> <<num>>]

Linspace(num) ==
    IF num < 0 THEN [err |-> "ValueError", shape |-> <<>>]
    ELSE [err |-> "none", shape |-> <<num>>]

\* ndarray.reshape(shp): the sizes must agree
Reshape(shape, shp) ==
    IF Prod(shape) = Prod(shp) THEN [err |-> "none", shape |-> shp]
    ELSE [err |-> "ValueError", shape |-> <<>>]

\* np.random.normal(size=shp) / np.random.randn(*shp): draws Prod(shp) variates
Draw(r, shp, kind) ==
    [arr |-> [shape |-> shp, type |-> "ndarray", kind |-> kind,
              seed |-> r.seed, pos |-> r.pos, w |-> 0],
     rng |-> [seed |-> r.seed, pos |-> r.pos + Prod(shp)]]

Raised(e, r) == [err |-> e, arr |-> None, rng |-> r]

\* The body the two synthesizers share: lines 91-93 and 227-229
Synthesize(n_samples, r, kind) ==
    LET X == Linspace(n_samples * SeqLen)
        R == Reshape(X.shape, <<n_samples, SeqLen, Features>>)
    IN  IF X.err # "none" THEN Raised(X.err, r)
        ELSE IF R.err # "none" THEN Raised(R.err, r)
        ELSE LET d == Draw(r, R.shape, kind)
             IN  [err |-> "none", arr |-> d.arr, rng |-> d.rng]

generate_real_data_CountsCalls(n_samples, r) ==
    LET y == Synthesize(n_samples, r, "real")
    IN  [y EXCEPT !.arr.w = Len(calls)]

generate_real_data(n_samples, r) == Synthesize(n_samples, r, "real")

generate_rule_based_data_ReadsGan(n_samples, r) ==
    LET y == Synthesize(n_samples, r, "rule")
    IN  [y EXCEPT !.arr.w = gW.ver]

generate_rule_based_data(n_samples, r) == Synthesize(n_samples, r, "rule")

\* ----------------------------------------------------------- networks
InputShape == <<SeqLen, Features>>

\* layers.LSTM(units, return_sequences) on a per-sample shape (steps, features)
LSTM(units, return_sequences, s) ==
    IF return_sequences THEN <<s[1], units>> ELSE <<units>>

\* layers.Dense(units): replaces the last dimension
Dense(units, s) == [s EXCEPT ![Len(s)] = units]

\* layers.Reshape(target)
ReshapeLayer(target, s) == IF Prod(s) = Prod(target) THEN target ELSE <<>>

\* build_generator: the per-sample output shape of the generator
build_generator ==
    ReshapeLayer(<<SeqLen, 1>>, Dense(SeqLen, LSTM(50, FALSE, LSTM(100, TRUE, InputShape))))

\* build_discriminator: the per-sample output shape of the discriminator
build_discriminator ==
    Dense(1, LSTM(50, FALSE, LSTM(50, TRUE, InputShape)))

\* Lines 75-84. A model's trainable attribute starts True; compile() keeps the
\* value it sees (train_on_batch of a compiled model respects the trainable
\* state of its compile), so the discriminator trains when called directly
\* and is frozen inside gan, which is compiled after line 80.
Construct_NoFreeze ==
    [now |-> TRUE, atDCompile |-> TRUE, atGanCompile |-> TRUE]

Construct ==
    LET t0 == TRUE          \* line 76: a new model is trainable
        dc == t0            \* line 77: discriminator.compile
        t1 == FALSE         \* line 80: discriminator.trainable = False
        gc == t1            \* line 84: gan.compile
    IN  [now |-> t1, atDCompile |-> dc, atGanCompile |-> gc]

InitWeights == [ver |-> 0, sig |-> 0]

\* What the framework does with a batch of no samples differs between its
\* versions: it raises ValueError or it goes on.
BatchOutcomes(x) == IF x.shape[1] = 0 THEN {"none", "ValueError"} ELSE {"none"}

ShapeError(x) == IF Tail(x.shape) = InputShape THEN "none" ELSE "ShapeMismatch"

\* The exception a model call on batch x ends with under framework outcome o
CallError(x, o) == IF ShapeError(x) # "none" THEN ShapeError(x) ELSE o

\* np.ones / np.zeros / np.array([1] * n)
Labels(shp, v) == [shape |-> shp, value |-> v]

\* generator.predict(x): inference only, no weight is written
Predict(g, x) ==
    [shape |-> <<x.shape[1]>> \o build_generator, type |-> "ndarray", kind |-> "fake",
     seed |-> x.seed, pos |-> x.pos, w |-> g.sig]

\* One optimizer step of weights w on batch x against labels y
Update(w, x, y) == [ver |-> w.ver + 1, sig |-> Mix(Mix(w.sig, Digest(x)), y.value)]

Loss(w, x, y) == Mix(Mix(w.sig, Digest(x)), y.value) % LossLevels

Accuracy(w, x, y) == Mix(Loss(w, x, y), w.ver) % LossLevels

\* 0.5 * v and 100 * v on fractions
Half(v) == [num |-> v, den |-> 2]

Times(k, f) == [num |-> k * f.num, den |-> f.den]

\* line 106: d_loss = 0.5 * np.add(d_loss_real, d_loss_fake), elementwise
MeanLoss_NoHalf(a, b) == <<[num |-> a[1] + b[1], den |-> 1], [num |-> a[2] + b[2], den |-> 1]>>

MeanLoss(a, b) == <<Half(a[1] + b[1]), Half(a[2] + b[2])>>

\* line 97: for epoch in range(epochs)
InRange_OffByOne(e, n) == e <= n

InRange_AtLeastOnce(e, n) == e < n \/ e = 0

InRange(e, n) == e < n

\* line 114: if epoch % 100 == 0
ShouldPrint_SkipsZero(e) == e % PrintEvery = 0 /\ e > 0

ShouldPrint(e) == e % PrintEvery = 0

\* -------------------------------------------------------------- train_gan
\* An entry of ops: the call, its batch size and labels, and the number of
\* updates each network has had once the call returns.
Op(name, n, y, g, d) == [op |-> name, n |-> n, y |-> y, g |-> g.ver, d |-> d.ver]

Goto(next) == pc' = next /\ UNCHANGED <<cell, err, done>>

\* An exception leaves the operation in progress; nothing catches it.
Raise(e) ==
    /\ err' = [err EXCEPT ![cell] = e]
    /\ pc' = "raised"
    /\ cell' = "idle"
    /\ done' = done \cup {cell}

Return ==
    /\ pc' = "done"
    /\ cell' = "idle"
    /\ done' = done \cup {cell}
    /\ UNCHANGED err

\* line 97
Loop ==
    /\ cell = "gan" /\ pc = "loop"
    /\ IF InRange(epoch, epochs)
       THEN Goto("real") /\ ops' = <<>>
       ELSE Return /\ UNCHANGED ops
    /\ UNCHANGED <<rng, start, params, epoch, nets, data, losses, log, outside>>

\* line 99
DrawReal ==
    /\ cell = "gan" /\ pc = "real"
    /\ LET r == generate_real_data(batch_size, rng)
       IN  IF r.err # "none"
           THEN Raise(r.err) /\ UNCHANGED <<rng, real_data, ops>>
           ELSE /\ Goto("noise")
                /\ rng' = r.rng
                /\ real_data' = r.arr
                /\ ops' = Append(ops, Op("real", r.arr.shape[1], -1, gW, dW))
    /\ UNCHANGED <<start, params, epoch, nets, noise, fake_data, valid_y, losses, log, outside>>

\* line 100
DrawNoise ==
    /\ cell = "gan" /\ pc = "noise"
    /\ LET d == Draw(rng, <<batch_size, SeqLen, 1>>, "noise")
       IN  /\ rng' = d.rng
           /\ noise' = d.arr
           /\ ops' = Append(ops, Op("noise", d.arr.shape[1], -1, gW, dW))
    /\ Goto("predict")
    /\ UNCHANGED <<start, params, epoch, nets, real_data, fake_data, valid_y, losses, log, outside>>

\* line 101
GeneratorPredict ==
    /\ cell = "gan" /\ pc = "predict"
    /\ \E o \in BatchOutcomes(noise) :
         IF CallError(noise, o) # "none"
             THEN Raise(CallError(noise, o)) /\ UNCHANGED <<fake_data, ops>>
             ELSE /\ Goto("d_real")
                  /\ fake_data' = Predict(gW, noise)
                  /\ ops' = Append(ops, Op("predict", noise.shape[1], -1, gW, dW))
    /\ UNCHANGED <<rng, start, params, epoch, nets, real_data, noise, valid_y, losses, log, outside>>

\* discriminator.train_on_batch(x, y): one update, under the trainable state
\* of discriminator.compile
DiscriminatorUpdate(d, x, y, tr) == IF tr.atDCompile THEN Update(d, x, y) ELSE d

\* discriminator.train_on_batch(x, y): returns [loss, accuracy]
DiscriminatorTrainOnBatch(d, x, y, tr) ==
    [d |-> DiscriminatorUpdate(d, x, y, tr), loss |-> <<Loss(d, x, y), Accuracy(d, x, y)>>]

\* line 104
TrainDiscriminatorReal ==
    /\ cell = "gan" /\ pc = "d_real"
    /\ \E o \in BatchOutcomes(real_data) :
         LET y == Labels(<<batch_size, 1>>, 1)
             u == DiscriminatorTrainOnBatch(dW, real_data, y, trainable)
         IN  IF CallError(real_data, o) # "none"
             THEN Raise(CallError(real_data, o)) /\ UNCHANGED <<dW, d_loss_real, ops>>
             ELSE /\ Goto("d_fake")
                  /\ dW' = u.d
                  /\ d_loss_real' = u.loss
                  /\ ops' = Append(ops, Op("d_real", real_data.shape[1], y.value, gW, u.d))
    /\ UNCHANGED <<rng, start, params, epoch, gW, data, d_loss_fake, d_loss, g_loss, log, outside>>

\* line 105
TrainDiscriminatorFake ==
    /\ cell = "gan" /\ pc = "d_fake"
    /\ \E o \in BatchOutcomes(fake_data) :
         LET y == Labels(<<batch_size, 1>>, 0)
             u == DiscriminatorTrainOnBatch(dW, fake_data, y, trainable)
         IN  IF CallError(fake_data, o) # "none"
             THEN Raise(CallError(fake_data, o)) /\ UNCHANGED <<dW, d_loss_fake, ops>>
             ELSE /\ Goto("d_loss")
                  /\ dW' = u.d
                  /\ d_loss_fake' = u.loss
                  /\ ops' = Append(ops, Op("d_fake", fake_data.shape[1], y.value, gW, u.d))
    /\ UNCHANGED <<rng, start, params, epoch, gW, data, d_loss_real, d_loss, g_loss, log, outside>>

\* line 106
ComputeDLoss ==
    /\ cell = "gan" /\ pc = "d_loss"
    /\ d_loss' = MeanLoss(d_loss_real, d_loss_fake)
    /\ Goto("noise2")
    /\ UNCHANGED <<rng, start, params, epoch, nets, data, d_loss_real, d_loss_fake, g_loss,
                   log, ops, outside>>

\* lines 109-110
DrawNoiseAgain ==
    /\ cell = "gan" /\ pc = "noise2"
    /\ LET d == Draw(rng, <<batch_size, SeqLen, 1>>, "noise")
       IN  /\ rng' = d.rng
           /\ noise' = d.arr
           /\ ops' = Append(ops, Op("noise", d.arr.shape[1], -1, gW, dW))
    /\ valid_y' = Labels(<<batch_size>>, 1)
    /\ Goto("g_train")
    /\ UNCHANGED <<start, params, epoch, nets, real_data, fake_data, losses, log, outside>>

\* gan.train_on_batch(x, y): the generator's weights are trained through the
\* discriminator, whose own weights are written only if gan was compiled with
\* the discriminator trainable.
GanUpdate(g, d, x, y, tr) ==
    [g |-> Update(g, x, y),
     d |-> IF tr.atGanCompile THEN Update(d, Predict(g, x), y) ELSE d,
     loss |-> Loss(d, Predict(g, x), y)]

\* line 111
TrainGenerator ==
    /\ cell = "gan" /\ pc = "g_train"
    /\ \E o \in BatchOutcomes(noise) :
         LET u == GanUpdate(gW, dW, noise, valid_y, trainable)
         IN  IF CallError(noise, o) # "none"
             THEN Raise(CallError(noise, o)) /\ UNCHANGED <<nets, g_loss, ops>>
             ELSE /\ Goto("print")
                  /\ gW' = u.g
                  /\ dW' = u.d
                  /\ g_loss' = u.loss
                  /\ ops' = Append(ops, Op("g_train", noise.shape[1], valid_y.value, u.g, u.d))
    /\ UNCHANGED <<rng, start, params, epoch, data, d_loss_real, d_loss_fake, d_loss, log, outside>>

\* lines 114-115, then the next value of range(epochs)
PrintProgress ==
    /\ cell = "gan" /\ pc = "print"
    /\ log' = IF ShouldPrint(epoch)
              THEN Append(log, [epoch |-> epoch, d_loss |-> d_loss[1],
                                acc |-> Times(100, d_loss[2]), g_loss |-> g_loss,
                                g |-> gW.ver, d |-> dW.ver])
              ELSE log
    /\ epoch' = epoch + 1
    /\ Goto("loop")
    /\ UNCHANGED <<rng, start, params, nets, data, losses, ops, outside>>

TrainGan ==
    \/ Loop
    \/ DrawReal
    \/ DrawNoise
    \/ GeneratorPredict
    \/ TrainDiscriminatorReal
    \/ TrainDiscriminatorFake
    \/ ComputeDLoss
    \/ DrawNoiseAgain
    \/ TrainGenerator
    \/ PrintProgress

\* ------------------------------------------------------------ initial state
NoLoss == <<0, 0>>

Constructed ==
    /\ tfrng = 0
    /\ trainable = Construct
    /\ gW = InitWeights /\ dW = InitWeights
    /\ epoch = 0
    /\ real_data = None /\ noise = None /\ fake_data = None
    /\ valid_y = Labels(<<>>, 0)
    /\ d_loss_real = NoLoss /\ d_loss_fake = NoLoss
    /\ d_loss = MeanLoss(NoLoss, NoLoss) /\ g_loss = 0
    /\ log = <<>> /\ ops = <<>>
    /\ err = [c \in Cells |-> "none"]
    /\ vaeW = InitWeights /\ vae_data = None
    /\ real_data_arima = None /\ arima_fit = "none" /\ arima_pred = None
    /\ rule_based_data = None
    /\ done = {}
    /\ calls = <<>>

\* The epochs arguments tried: the short runs, and the two longest, which go
\* past the second status line.
EpochChoices == (0..MaxSmallEpochs) \cup {MaxEpochs - 1, MaxEpochs}

\* A call train_gan(generator, discriminator, gan, epochs, batch_size) on the
\* freshly constructed networks.
Init ==
    /\ Constructed
    /\ cell = "gan" /\ pc = "loop"
    /\ epochs \in EpochChoices
    /\ batch_size \in (-NegBatch)..MaxBatch
    /\ \E s \in 0..MaxSeed : rng = SeedState(s)
    /\ start = [c \in Cells |-> rng]

Next == TrainGan

Spec == Init /\ [][Next]_vars

\* --------------------------------------------------- synthesizer calls
\* np.random.seed(s), by the caller
Reseed ==
    /\ cell = "synth"
    /\ \E s \in 0..MaxSeed : rng' = SeedState(s)
    /\ UNCHANGED <<cell, pc, err, done, start, ganVars, outside>>

CallRecord(fn, n, r) ==
    [fn |-> fn, n |-> n, before |-> rng, err |-> r.err, arr |-> r.arr, after |-> r.rng]

\* y = generate_real_data(n)
CallGenerateRealData ==
    /\ cell = "synth" /\ Len(calls) < MaxCalls
    /\ \E n \in (-NegN)..MaxN :
         LET r == generate_real_data(n, rng)
         IN  /\ calls' = Append(calls, CallRecord("real", n, r))
             /\ rng' = r.rng
    /\ UNCHANGED <<cell, pc, err, done, start, ganVars, tfrng, trainable, vaeW, vae_data,
                   arimaVars, rule_based_data>>

\* y = generate_rule_based_data(n)
CallGenerateRuleBasedData ==
    /\ cell = "synth" /\ Len(calls) < MaxCalls
    /\ \E n \in (-NegN)..MaxN :
         LET r == generate_rule_based_data(n, rng)
         IN  /\ calls' = Append(calls, CallRecord("rule", n, r))
             /\ rng' = r.rng
    /\ UNCHANGED <<cell, pc, err, done, start, ganVars, tfrng, trainable, vaeW, vae_data,
                   arimaVars, rule_based_data>>

InitSynth ==
    /\ Constructed
    /\ cell = "synth" /\ pc = "idle"
    /\ epochs = DefaultEpochs /\ batch_size = DefaultBatchSize
    /\ \E s \in 0..MaxSeed : rng = SeedState(s)
    /\ start = [c \in Cells |-> rng]

NextSynth == Reseed \/ CallGenerateRealData \/ CallGenerateRuleBasedData

SpecSynth == InitSynth /\ [][NextSynth]_vars

\* ------------------------------------------------- train_gan as a function
\* What one epoch of train_gan (lines 99-111) makes of the random state and
\* the weights in st when no call raises.
EpochFrom(bs, st) ==
    LET real == generate_real_data(bs, st.rng)
        nz == Draw(real.rng, <<bs, SeqLen, 1>>, "noise")
        fake == Predict(st.g, nz.arr)
        d1 == DiscriminatorTrainOnBatch(st.d, real.arr, Labels(<<bs, 1>>, 1), trainable).d
        d2 == DiscriminatorTrainOnBatch(d1, fake, Labels(<<bs, 1>>, 0), trainable).d
        nz2 == Draw(nz.rng, <<bs, SeqLen, 1>>, "noise")
        u == GanUpdate(st.g, d2, nz2.arr, Labels(<<bs>>, 1), trainable)
    IN  [g |-> u.g, d |-> u.d, rng |-> nz2.rng]

\* Epochs lo..(hi - 1) of the loop of line 97, halving the range (and looking
\* at the first half's result before going on) so that the evaluation stays
\* shallow.
RECURSIVE TrainGanFrom(_, _, _, _)
TrainGanFrom(lo, hi, bs, st) ==
    IF ~InRange(lo, hi) THEN st
    ELSE IF hi - lo = 1 THEN EpochFrom(bs, st)
    ELSE LET mid == (lo + hi) \div 2
             half == TrainGanFrom(lo, mid, bs, st)
         IN  IF half.g.ver >= 0 THEN TrainGanFrom(mid, hi, bs, half) ELSE st

\* ------------------------------------------------------------ the notebook
\* line 118: train_gan(generator, discriminator, gan), with the defaults
RunGan ==
    /\ cell = "idle" /\ "gan" \notin done
    /\ cell' = "gan" /\ pc' = "loop"
    /\ start' = [start EXCEPT !["gan"] = rng]
    /\ UNCHANGED <<rng, err, done, ganVars, outside>>

\* vae.fit(x, epochs, batch_size): ceil(n / batch_size) updates an epoch, each
\* drawing the sampling layer's epsilon from the framework's random source
VaeFit(w, x, n_epochs, bs, t) ==
    LET n == x.shape[1]
        steps == (n + bs - 1) \div bs
    IN  [w |-> [ver |-> w.ver + n_epochs * steps, sig |-> Mix(Mix(w.sig, Digest(x)), t)],
         tfrng |-> t + n_epochs * n * latent_dim]

\* line 185
RunVae ==
    /\ cell = "idle" /\ "vae" \notin done
    /\ LET r == generate_real_data(VaeSamples, rng)
           f == VaeFit(vaeW, r.arr, VaeEpochs, VaeBatchSize, tfrng)
       IN  /\ rng' = r.rng
           /\ vae_data' = r.arr
           /\ vaeW' = f.w
           /\ tfrng' = f.tfrng
    /\ done' = done \cup {"vae"}
    /\ start' = [start EXCEPT !["vae"] = rng]
    /\ UNCHANGED <<cell, pc, err, ganVars, trainable, arimaVars, rule_based_data, calls>>

\* ndarray.flatten()
Flatten(a) == [a EXCEPT !.shape = <<Prod(a.shape)>>]

\* ARIMAResults.predict(start, end): one value per index, in the container
\* type of the series the model was given (an ndarray for an ndarray)
ArimaPredict(endog, first, last) ==
    [endog EXCEPT !.shape = <<last - first + 1>>, !.kind = "arima"]

\* line 220: arima_pred.values.reshape(100, 30, 1); only a pandas Series has
\* the attribute values
ValuesReshape(a, shp) ==
    IF a.type # "Series" THEN [err |-> "AttributeError", arr |-> None]
    ELSE LET R == Reshape(a.shape, shp)
         IN  IF R.err # "none" THEN [err |-> R.err, arr |-> None]
             ELSE [err |-> "none", arr |-> [a EXCEPT !.shape = shp, !.type = "ndarray"]]

\* line 210
ArimaData ==
    /\ cell = "idle" /\ "arima" \notin done
    /\ LET r == generate_real_data(ArimaSamples, rng)
       IN  /\ rng' = r.rng
           /\ real_data_arima' = Flatten(r.arr)
    /\ cell' = "arima" /\ pc' = "a_fit"
    /\ start' = [start EXCEPT !["arima"] = rng]
    /\ UNCHANGED <<err, done, ganVars, tfrng, trainable, vaeW, vae_data, arima_fit,
                   arima_pred, rule_based_data, calls>>

\* lines 213-214: the solver converges or the fit raises
ArimaFit ==
    /\ cell = "arima" /\ pc = "a_fit"
    /\ \E o \in {"none", "FittingFailure"} :
         IF o # "none"
         THEN Raise(o) /\ UNCHANGED arima_fit
         ELSE Goto("a_predict") /\ arima_fit' = "fitted"
    /\ UNCHANGED <<rng, start, ganVars, tfrng, trainable, vaeW, vae_data, real_data_arima,
                   arima_pred, rule_based_data, calls>>

\* line 217
ArimaPredictStep ==
    /\ cell = "arima" /\ pc = "a_predict"
    /\ arima_pred' = ArimaPredict(real_data_arima, 0, real_data_arima.shape[1] - 1)
    /\ Goto("a_reshape")
    /\ UNCHANGED <<rng, start, ganVars, tfrng, trainable, vaeW, vae_data, real_data_arima,
                   arima_fit, rule_based_data, calls>>

\* line 220
ArimaReshape ==
    /\ cell = "arima" /\ pc = "a_reshape"
    /\ LET v == ValuesReshape(arima_pred, <<ArimaSamples, SeqLen, 1>>)
       IN  IF v.err # "none"
           THEN Raise(v.err) /\ UNCHANGED arima_pred
           ELSE Return /\ arima_pred' = v.arr
    /\ UNCHANGED <<rng, start, ganVars, tfrng, trainable, vaeW, vae_data, real_data_arima,
                   arima_fit, rule_based_data, calls>>

\* line 232
RunRuleBased ==
    /\ cell = "idle" /\ "rule" \notin done
    /\ LET r == generate_rule_based_data(RuleSamples, rng)
       IN  /\ rng' = r.rng
           /\ rule_based_data' = r.arr
    /\ done' = done \cup {"rule"}
    /\ start' = [start EXCEPT !["rule"] = rng]
    /\ UNCHANGED <<cell, pc, err, ganVars, tfrng, trainable, vaeW, vae_data, arimaVars, calls>>

\* The cells after construction, run one at a time in the order the user picks
InitNotebook ==
    /\ Constructed
    /\ cell = "idle" /\ pc = "idle"
    /\ epochs = DefaultEpochs /\ batch_size = DefaultBatchSize
    /\ \E s \in 0..MaxNotebookSeed : rng = SeedState(s)
    /\ start = [c \in Cells |-> rng]

NextNotebook ==
    \/ RunGan
    \/ TrainGan
    \/ RunVae
    \/ ArimaData
    \/ ArimaFit
    \/ ArimaPredictStep
    \/ ArimaReshape
    \/ RunRuleBased

SpecNotebook == InitNotebook /\ [][NextNotebook]_vars

\* ========================================================== train_gan claims
Finished == cell = "idle" /\ "gan" \in done

\* C1 as stated: for every epochs >= 0 and every batch_size, train_gan runs
\* its loop body exactly `epochs` times and then ends normally.
C1_ExactlyEpochsForEveryBatchSize ==
    Finished => (pc = "done" /\ err["gan"] = "none" /\ epoch = epochs /\ gW.ver = epochs)

\* C1 amended: for every epochs >= 0 and every batch_size >= 1 the loop body
\* runs exactly `epochs` times, nothing raises, no step is ever stuck, and the
\* loop ends only at epoch = epochs; with epochs = 0 that holds for any
\* batch_size; with a negative batch_size and epochs >= 1 the first iteration
\* raises ValueError in generate_real_data before any batch is drawn or any
\* weight is updated.
C1_ExactlyEpochsForValidBatchSize ==
    /\ epoch <= epochs
    /\ pc = "done" => (epoch = epochs /\ err["gan"] = "none")
    /\ (batch_size >= 1 \/ epochs = 0) =>
          /\ pc # "raised" /\ err["gan"] = "none"
          /\ cell = "gan" => ENABLED TrainGan
          /\ gW.ver \in {epoch, epoch + 1}
          /\ Finished => (pc = "done" /\ gW.ver = epochs /\ dW.ver = 2 * epochs)
    /\ (batch_size < 0 /\ epochs >= 1) =>
          /\ pc \in {"loop", "real", "raised"}
          /\ epoch = 0 /\ gW = InitWeights /\ dW = InitWeights /\ rng = start["gan"]
          /\ Finished => (pc = "raised" /\ err["gan"] = "ValueError")

C1_Witness == Finished /\ pc = "done" /\ epochs >= 2 /\ batch_size >= 1 /\ gW.ver = epochs

\* C2: the generator update through the composite network leaves the
\* discriminator's weights as they were; only the two
\* discriminator.train_on_batch calls of an epoch change them.
C2_GanUpdateLeavesDiscriminator ==
    [][ /\ (pc = "g_train" => dW' = dW)
        /\ (dW' # dW => (pc \in {"d_real", "d_fake"} /\ dW'.ver = dW.ver + 1))
        /\ (pc = "g_train" /\ pc' = "print" => gW'.ver = gW.ver + 1) ]_vars

C2_Witness ==
    pc = "print" /\ epoch >= 1 /\ batch_size >= 1 /\ gW.ver = epoch + 1 /\ dW.ver = 2 * (epoch + 1)

\* How many multiples of 100 lie in 0..(e - 1)
MultiplesBelow(e) == (e + 99) \div 100

\* C6: a status line (epoch, D loss, D accuracy in percent, G loss) is emitted
\* exactly at the epochs whose index is a multiple of 100, from epoch 0 on,
\* after that epoch's discriminator and generator updates.
C6_StatusLineEvery100 ==
    /\ Len(log) = MultiplesBelow(epoch)
    /\ \A i \in 1..Len(log) :
          /\ log[i].epoch = 100 * (i - 1)
          /\ log[i].g = log[i].epoch + 1
          /\ log[i].d = 2 * (log[i].epoch + 1)
    /\ (pc = "loop" /\ epoch >= 1 /\ (epoch - 1) % 100 = 0) =>
          /\ log[Len(log)].epoch = epoch - 1
          /\ log[Len(log)].d_loss = d_loss[1]
          /\ log[Len(log)].acc = [num |-> 100 * d_loss[2].num, den |-> d_loss[2].den]
          /\ log[Len(log)].g_loss = g_loss

C6_Witness == Len(log) = 2 /\ epoch >= 102 /\ pc = "done"

\* C7: train_gan with epochs = 0 changes no weight, draws no real or noise
\* batch and emits no status line.
C7_ZeroEpochs ==
    epochs = 0 =>
        /\ gW = InitWeights /\ dW = InitWeights
        /\ rng = start["gan"]
        /\ real_data = None /\ noise = None /\ fake_data = None
        /\ log = <<>> /\ ops = <<>>
        /\ pc \in {"loop", "done"} /\ err["gan"] = "none"

C7_Witness == epochs = 0 /\ Finished /\ pc = "done"

\* The calls of one epoch, in order, with the labels of each update
EpochOps ==
    << [op |-> "real", y |-> -1, g |-> 0, d |-> 0],
       [op |-> "noise", y |-> -1, g |-> 0, d |-> 0],
       [op |-> "predict", y |-> -1, g |-> 0, d |-> 0],
       [op |-> "d_real", y |-> 1, g |-> 0, d |-> 1],
       [op |-> "d_fake", y |-> 0, g |-> 0, d |-> 2],
       [op |-> "noise", y |-> -1, g |-> 0, d |-> 2],
       [op |-> "g_train", y |-> 1, g |-> 1, d |-> 2] >>

\* The epoch the entries of ops belong to
OpsEpoch == IF pc \in {"loop", "done"} /\ epoch >= 1 THEN epoch - 1 ELSE epoch

\* C9: every epoch draws a real and a noise batch of batch_size samples,
\* predicts the fake batch without changing a weight, updates the
\* discriminator on the real batch against ones and on the fake batch against
\* zeros, draws a fresh noise batch and updates the generator once against
\* ones, in this order; after E epochs there have been 2E discriminator and E
\* generator updates; the epoch's discriminator loss is the mean of its two
\* discriminator results.
C9_EpochSteps ==
    /\ Len(ops) <= Len(EpochOps)
    /\ \A i \in 1..Len(ops) :
          /\ ops[i].op = EpochOps[i].op
          /\ ops[i].n = batch_size
          /\ ops[i].y = EpochOps[i].y
          /\ ops[i].g = OpsEpoch + EpochOps[i].g
          /\ ops[i].d = 2 * OpsEpoch + EpochOps[i].d
    /\ (pc = "print" \/ (pc \in {"loop", "done"} /\ epoch >= 1)) => Len(ops) = Len(EpochOps)
    /\ pc \in {"loop", "done"} => (gW.ver = epoch /\ dW.ver = 2 * epoch)
    /\ pc \in {"noise2", "g_train", "print"} =>
          /\ d_loss[1] = [num |-> d_loss_real[1] + d_loss_fake[1], den |-> 2]
          /\ d_loss[2] = [num |-> d_loss_real[2] + d_loss_fake[2], den |-> 2]
    /\ pc \in {"d_real", "d_fake", "d_loss", "noise2"} =>
          /\ fake_data.shape = real_data.shape
          /\ fake_data.pos = noise.pos /\ fake_data.w = gW.sig
    /\ (pc \in {"g_train", "print"} /\ batch_size >= 1) => noise.pos > fake_data.pos

C9_Witness ==
    /\ pc = "print" /\ epoch = 1 /\ batch_size = 2 /\ Len(ops) = 7
    /\ d_loss_real # d_loss_fake

\* ========================================================= synthesizer claims
\* C3 as stated: a call of either synthesizer with n_samples <= 0 fails with
\* an error and returns no array.
C3_NonPositiveFails ==
    \A i \in 1..Len(calls) :
        calls[i].n <= 0 => (calls[i].err # "none" /\ calls[i].arr = None)

\* C3 amended: a call of either synthesizer with a negative n_samples fails
\* with ValueError (raised by np.linspace), returns no array and draws
\* nothing from the random source; with n_samples = 0 it raises nothing and
\* returns an empty array of shape (0, 30, 1).
C3_NegativeFailsZeroIsEmpty ==
    \A i \in 1..Len(calls) :
        /\ calls[i].n < 0 =>
              /\ calls[i].err = "ValueError" /\ calls[i].arr = None
              /\ calls[i].after = calls[i].before
        /\ calls[i].n = 0 =>
              /\ calls[i].err = "none"
              /\ calls[i].arr.shape = <<0, 30, 1>>
              /\ calls[i].after = calls[i].before

C3_Witness ==
    /\ Len(calls) = 2
    /\ calls[1].fn = "real" /\ calls[1].n < 0 /\ calls[1].err = "ValueError"
    /\ calls[2].fn = "rule" /\ calls[2].n = 0 /\ calls[2].arr.shape = <<0, 30, 1>>

C4_ArimaTwoOutcomes ==
    "arima" \in done =>
        \/ err["arima"] = "none" /\ arima_pred.shape = <<100, 30, 1>>
        \/ err["arima"] = "FittingFailure" /\ arima_fit = "none"

HasSeqShape(a) == Len(a.shape) = 3 /\ Tail(a.shape) = <<30, 1>>

\* C5: the synthesizers return shape (n_samples, 30, 1) for n_samples > 0, and
\* every batch between components (real, noise, fake, and the ARIMA
\* prediction the ARIMA cell leaves behind) has last two dimensions (30, 1).
C5_EveryBatchIs30By1 ==
    /\ \A i \in 1..Len(calls) :
          calls[i].n > 0 => calls[i].arr.shape = <<calls[i].n, 30, 1>>
    /\ "rule" \in done => rule_based_data.shape = <<RuleSamples, 30, 1>>
    /\ "vae" \in done => vae_data.shape = <<VaeSamples, 30, 1>>
    /\ \A a \in {real_data, noise, fake_data} : IsArray(a) => HasSeqShape(a)
    /\ ("arima" \in done /\ IsArray(arima_pred)) => HasSeqShape(arima_pred)

\* The part of C5 that does not involve the ARIMA prediction (it holds of the
\* notebook and of the synthesizer calls).
C5_BatchesOtherThanArima ==
    /\ \A i \in 1..Len(calls) :
          calls[i].n > 0 => calls[i].arr.shape = <<calls[i].n, 30, 1>>
    /\ "rule" \in done => rule_based_data.shape = <<RuleSamples, 30, 1>>
    /\ "vae" \in done => vae_data.shape = <<VaeSamples, 30, 1>>
    /\ \A a \in {real_data, noise, fake_data} : IsArray(a) => HasSeqShape(a)

\* The random state the notebook starts from
Seeded == SeedState(rng.seed)

\* What each pipeline leaves behind when it starts from random state r
GanResult(r) ==
    LET t == TrainGanFrom(0, DefaultEpochs, DefaultBatchSize,
                          [g |-> InitWeights, d |-> InitWeights, rng |-> r])
    IN  [g |-> t.g, d |-> t.d]

PipelineResultsFrom(r) ==
    /\ "rule" \in done => rule_based_data = generate_rule_based_data(RuleSamples, r["rule"]).arr
    /\ "vae" \in done =>
          /\ vae_data = generate_real_data(VaeSamples, r["vae"]).arr
          /\ vaeW = VaeFit(InitWeights, vae_data, VaeEpochs, VaeBatchSize, 0).w
    /\ "arima" \in done =>
          real_data_arima = Flatten(generate_real_data(ArimaSamples, r["arima"]).arr)
    /\ "gan" \in done => [g |-> gW, d |-> dW] = GanResult(r["gan"])

Drawn(c) ==
    CASE c = "gan" -> DefaultEpochs * 3 * DefaultBatchSize * SeqLen
      [] c = "vae" -> VaeSamples * SeqLen
      [] c = "arima" -> ArimaSamples * SeqLen
      [] c = "rule" -> RuleSamples * SeqLen
      [] OTHER -> 0

RECURSIVE DrawnBy(_)
DrawnBy(S) == IF S = {} THEN 0 ELSE LET c == CHOOSE x \in S : TRUE IN Drawn(c) + DrawnBy(S \ {c})

====
